---- MODULE Spec2Model ----
(***************************************************************************)
(* Model of bittensor/_axon/axon_impl.py: the Axon servicer's Forward and  *)
(* Backward RPC handlers (validation, per-synapse decode, compute through  *)
(* a direct call or the priority thread pool, encode, response assembly).  *)
(*                                                                         *)
(* One RPC is followed through its handler, one action per stage of        *)
(* _forward / _backward; the pool worker that runs a submitted task is a   *)
(* second process (WorkerStart, WorkerFinish) interleaved with the caller. *)
(* Tensors, messages and elapsed times are abstracted to tags: a payload   *)
(* is 0 (synapse.empty()) or the index of the synapse whose output it      *)
(* encodes, a decoded tensor is 0 (None) or the position of the request    *)
(* payload it was decoded from, an elapsed time is the stage that stamped  *)
(* it.                                                                     *)
(***************************************************************************)
EXTENDS Integers, Sequences, FiniteSets, TLC

\* ---------------------------------------------------------------- bounds
MaxSyn == 2
MaxTensors == 2 * MaxSyn + 1

\* ------------------------------------------------- bittensor.proto.ReturnCode
NoReturn == "NoReturn"
Success == "Success"
Timeout == "Timeout"
EmptyRequest == "EmptyRequest"
InvalidRequest == "InvalidRequest"
RequestShapeException == "RequestShapeException"
RequestDeserializationException == "RequestDeserializationException"
ResponseShapeException == "ResponseShapeException"
ResponseSerializationException == "ResponseSerializationException"
EmptyResponse == "EmptyResponse"
NotImplemented == "NotImplemented"
UnknownException == "UnknownException"

\* the codes a synapse outcome can carry
ReturnCodes ==
    {Success, Timeout, EmptyRequest, InvalidRequest, RequestShapeException,
     RequestDeserializationException, ResponseShapeException,
     ResponseSerializationException, EmptyResponse, NotImplemented,
     UnknownException}

\* Codes a compute callback hands back per synapse (default_forward_callback
\* and default_backward_callback produce exactly these three).
CallbackCodes == {Success, NotImplemented, UnknownException}

VARIABLES
    priority,          \* self.priority != None
    forward_timeout,   \* self.forward_timeout: "None" or "set"
    prometheus,        \* self.prometheus: "unset" (attribute missing), "on", "off"
    rpc,               \* "none", "Forward" or "Backward"
    request,           \* the TensorMessage received
    req_codes,         \* request.synapses[i].return_code
    req_messages,      \* request.synapses[i].message
    pc,                \* position of the handler
    synapse_codes,
    synapse_messages,
    synapse_call_times,
    synapse_is_response,
    synapse_responses,
    deserialized_forward_tensors,
    deserialized_forward_gradients,
    response_tensors,  \* forward_response_tensors / backward_response_tensors
    response_synapses,
    task,              \* the future of the task this call submitted to the pool
    response,          \* the TensorMessage returned to the transport
    trace,             \* what the call has done so far (observation only)
    dispatch,          \* a run of default_forward_callback / default_backward_callback
    calls,             \* the handler threads serving RPCs side by side
    metrics,           \* self.total_forward / self.total_backward, shared by all calls
    attached           \* self.forward_callback, self.backward_callback, self.synapse_callbacks

vars == << priority, forward_timeout, prometheus, rpc, request, req_codes,
           req_messages, pc, synapse_codes, synapse_messages,
           synapse_call_times, synapse_is_response, synapse_responses,
           deserialized_forward_tensors, deserialized_forward_gradients,
           response_tensors, response_synapses, task, response, trace,
           dispatch, calls, metrics, attached >>

\* What no stage of _forward / _backward writes: the axon's settings, and the
\* run of the default callbacks and the side-by-side handler threads, which
\* are followed on their own (DispatchSpec, ConcurrentSpec), as are the
\* attach operations (AttachSpec).
config == << priority, forward_timeout, prometheus, dispatch, calls, metrics,
            attached >>

locals == << synapse_codes, synapse_messages, synapse_call_times,
             synapse_is_response, synapse_responses,
             deserialized_forward_tensors, deserialized_forward_gradients,
             response_tensors, response_synapses >>

\* ------------------------------------------------------------- helpers
\* a list built over request.tensors instead of synapses
Uniform_tensors(n, v) == [i \in 1..request.tensors |-> v]

\* [ v for _ in synapses ]
Uniform(n, v) == [i \in 1..n |-> v]

\* len( synapses ) of the running call
N == request.nsyn

NoResult == [kind |-> "none", codes |-> << >>]
NoTask == [state |-> "none", kind |-> "none", result |-> NoResult]
NoResponse == [return_code |-> NoReturn, tensors |-> << >>,
               requires_grad |-> FALSE, synapses |-> << >>]
NoTrace == [decoded |-> {}, encoded |-> {}, priority_evals |-> 0,
            submits |-> 0, direct_calls |-> 0, worker_calls |-> 0,
            emits |-> 0, counts |-> 0, cancel_requested |-> FALSE,
            deadline_expired |-> FALSE, decode_failed |-> {},
            after_decode |-> << >>, fault |-> "none", batch |-> {},
            after_compute |-> << >>, encode_loop |-> FALSE,
            before_encode |-> << >>, encode_outs |-> << >>,
            decode_outs |-> << >>, expired_in |-> "none",
            grad_read |-> << >>, grad_against |-> << >>]

\* What a compute callback can do for a batch of n synapses: return one code
\* per synapse, return lists that are too short, raise, or raise a
\* concurrent.futures.TimeoutError.
CallbackResults(n) ==
    { [kind |-> "return", codes |-> c] : c \in [1..n -> CallbackCodes] }
        \cup { [kind |-> k, codes |-> << >>] : k \in {"short", "raise", "timeout"} }

\* the stop check with its result inverted
check_inverted(codes) == \E i \in DOMAIN codes : codes[i] = Success

\* check_if_should_return: true iff no code is Success
check_if_should_return(codes) == \A i \in DOMAIN codes : codes[i] # Success

\* the last synapse's code instead of the first
last_code(codes) == codes[Len(codes)]

\* the code reported when a stage stops the call: synapse_codes[0]
first_code(codes) == codes[1]

\* _forward's checks with the length check ahead of the empty check
forward_validation_swapped(nt, ns) ==
    IF nt # ns THEN [code |-> RequestShapeException, message |-> "LengthMismatch"]
    ELSE IF nt = 0 THEN [code |-> EmptyRequest, message |-> "ForwardEmpty"]
    ELSE [code |-> "pass", message |-> ""]

\* _forward's checks with a length check that only rejects surplus payloads
forward_validation_surplus(nt, ns) ==
    IF nt = 0 THEN [code |-> EmptyRequest, message |-> "ForwardEmpty"]
    ELSE IF nt > ns THEN [code |-> RequestShapeException, message |-> "LengthMismatch"]
    ELSE [code |-> "pass", message |-> ""]

\* The structural checks of _forward, in source order; "pass" when none fires.
forward_validation(nt, ns) ==
    IF nt = 0 THEN [code |-> EmptyRequest, message |-> "ForwardEmpty"]
    ELSE IF nt # ns THEN [code |-> RequestShapeException, message |-> "LengthMismatch"]
    ELSE [code |-> "pass", message |-> ""]

\* _backward's checks without the invalid-request check
backward_validation_no_invalid(nt, ns) ==
    IF nt = 0 THEN [code |-> EmptyRequest, message |-> "Empty Request"]
    ELSE IF nt # 2 * ns THEN [code |-> RequestShapeException, message |-> "LengthMismatch"]
    ELSE [code |-> "pass", message |-> ""]

\* _backward's checks with _forward's length check (one payload per synapse)
backward_validation_single(nt, ns) ==
    IF nt = 0 THEN [code |-> EmptyRequest, message |-> "Empty Request"]
    ELSE IF nt < 2 THEN [code |-> InvalidRequest, message |-> "BackwardTooFew"]
    ELSE IF nt # ns THEN [code |-> RequestShapeException, message |-> "LengthMismatch"]
    ELSE [code |-> "pass", message |-> ""]

\* The structural checks of _backward, in source order.
backward_validation(nt, ns) ==
    IF nt = 0 THEN [code |-> EmptyRequest, message |-> "Empty Request"]
    ELSE IF nt < 2 THEN [code |-> InvalidRequest, message |-> "BackwardTooFew"]
    ELSE IF nt # 2 * ns THEN [code |-> RequestShapeException, message |-> "LengthMismatch"]
    ELSE [code |-> "pass", message |-> ""]

\* request.synapses as it goes on the wire: the descriptors with the
\* code/message slots last written by finalize_codes_stats_and_logs
wire_synapses(codes, msgs) ==
    [i \in DOMAIN codes |-> [code |-> codes[i], message |-> msgs[i]]]

TypeOK ==
    /\ priority \in BOOLEAN
    /\ forward_timeout \in {"None", "set"}
    /\ prometheus \in {"unset", "on", "off"}
    /\ rpc \in {"none", "Forward", "Backward"}
    /\ pc \in {"idle", "validate", "decode", "compute", "waiting", "encode",
               "final", "returned", "raised"}

\* No call in progress: nothing received, no per-call list, no task.
NoCall ==
    /\ rpc = "none"
    /\ request = [tensors |-> 0, nsyn |-> 0, requires_grad |-> FALSE, wire_ok |-> TRUE]
    /\ req_codes = << >>
    /\ req_messages = << >>
    /\ pc = "idle"
    /\ synapse_codes = << >>
    /\ synapse_messages = << >>
    /\ synapse_call_times = << >>
    /\ synapse_is_response = << >>
    /\ synapse_responses = << >>
    /\ deserialized_forward_tensors = << >>
    /\ deserialized_forward_gradients = << >>
    /\ response_tensors = << >>
    /\ response_synapses = << >>
    /\ task = NoTask
    /\ response = NoResponse
    /\ trace = NoTrace

\* no default callback running
NoDispatch ==
    [kind |-> "none", n |-> 0, table |-> << >>, types |-> << >>,
     checks |-> << >>, fns |-> << >>, index |-> 1, response_tensors |-> << >>,
     response_codes |-> << >>, response_messages |-> << >>,
     admitted |-> {}, invoked |-> {}, returned |-> FALSE]

\* self.forward_callback / self.backward_callback as __init__ leaves them
\* when no callback is passed, an empty table of synapse functions, and no
\* attach operation performed yet
NoAttach ==
    [forward_callback |-> "default", backward_callback |-> "default",
     synapse_callbacks |-> [t \in {"TEXT_LAST_HIDDEN_STATE", "TEXT_CAUSAL_LM"}
                                |-> "absent"],
     op |-> "none", callback |-> "none", key |-> "none", before |-> "none",
     raised |-> FALSE]

\* the handler threads followed side by side
CallIds == {"t1", "t2"}

\* the lists of one handler invocation before it has received anything
NoOut ==
    [codes |-> << >>, messages |-> << >>, times |-> << >>, inputs |-> << >>,
     gradients |-> << >>, outputs |-> << >>, payloads |-> << >>,
     synapses |-> << >>, response |-> NoResponse]

\* a handler thread with no RPC
NoThread ==
    [pc |-> "idle", kind |-> "none", tensors |-> 0, nsyn |-> 0, log |-> << >>,
     future |-> NoTask, out |-> NoOut]

NoCalls == [c \in CallIds |-> NoThread]

Init ==
    /\ priority \in BOOLEAN
    /\ forward_timeout \in {"None", "set"}
    /\ prometheus \in {"unset", "on", "off"}
    /\ NoCall
    /\ dispatch = NoDispatch
    /\ calls = NoCalls
    /\ metrics = 0
    /\ attached = NoAttach

\* --------------------------------------------------------------- Receive
\* Forward / Backward entered by the transport; _forward / _backward
\* deserialize the synapse wire protos (outside any try) and initialise the
\* per-synapse lists.
Receive(kind, nt, ns, rg, ok) ==
    /\ pc = "idle"
    /\ rpc' = kind
    /\ request' = [tensors |-> nt, nsyn |-> ns, requires_grad |-> rg, wire_ok |-> ok]
    /\ req_codes' = Uniform(ns, NoReturn)
    /\ req_messages' = Uniform(ns, "")
    /\ task' = NoTask
    /\ response' = NoResponse
    /\ trace' = NoTrace
    /\ response_tensors' = << >>
    /\ response_synapses' = << >>
    /\ IF ok
       THEN /\ pc' = "validate"
            /\ synapse_codes' = Uniform(ns, Success)
            /\ synapse_messages' = Uniform(ns, "Success")
            /\ synapse_call_times' = Uniform(ns, "zero")
            /\ synapse_is_response' = Uniform(ns, FALSE)
            /\ synapse_responses' = Uniform(ns, 0)
            /\ deserialized_forward_tensors' = Uniform(ns, 0)
            /\ deserialized_forward_gradients' = Uniform(ns, 0)
       ELSE /\ pc' = "raised"
            /\ synapse_codes' = << >>
            /\ synapse_messages' = << >>
            /\ synapse_call_times' = << >>
            /\ synapse_is_response' = << >>
            /\ synapse_responses' = << >>
            /\ deserialized_forward_tensors' = << >>
            /\ deserialized_forward_gradients' = << >>
    /\ UNCHANGED config

\* ------------------------------------------------ finalize / return / raise
\* a finalize that moves the counters and the wire slots but writes no
\* rpc_log record
finalize_codes_stats_and_logs_unlogged(codes, msgs, tr, k) ==
    /\ req_codes' = codes
    /\ req_messages' = msgs
    /\ trace' = [tr EXCEPT !.counts = @ + (IF prometheus = "on" THEN k ELSE 0)]

\* finalize_codes_stats_and_logs running to its end for the k-th time in the
\* current action: counters (when self.prometheus is truthy), the wire slots
\* request.synapses[i].return_code / .message, one rpc_log per synapse.
finalize_codes_stats_and_logs(codes, msgs, tr, k) ==
    /\ req_codes' = codes
    /\ req_messages' = msgs
    /\ trace' = [tr EXCEPT !.emits = @ + k,
                           !.counts = @ + (IF prometheus = "on" THEN k ELSE 0)]

\* The handler returns (tensors, code, synapses) and Forward / Backward wrap
\* it in the response TensorMessage.
Return(tensors, code, synapses) ==
    /\ pc' = "returned"
    /\ response' = [return_code |-> code,
                    tensors |-> tensors,
                    requires_grad |-> request.requires_grad,
                    synapses |-> synapses]

\* An exception leaves _forward / _backward and Forward / Backward: the read
\* of self.prometheus in finalize_codes_stats_and_logs raises AttributeError
\* before anything is written.
Raise(tr) ==
    /\ pc' = "raised"
    /\ trace' = tr
    /\ UNCHANGED << req_codes, req_messages, response >>

\* The call-wide stop used by the validation checks and by the timeout and
\* unknown-exception handlers: every outcome is overwritten with the same
\* code, message and elapsed time, finalize runs (the k-th run of this
\* action) and the handler returns [], code, request.synapses.
StopAll(code, message, stamp, tr, k) ==
    /\ synapse_codes' = Uniform(N, code)
    /\ synapse_call_times' = Uniform(N, stamp)
    /\ synapse_messages' = Uniform(N, message)
    /\ IF prometheus = "unset"
       THEN Raise(tr)
       ELSE /\ finalize_codes_stats_and_logs(Uniform(N, code), Uniform(N, message), tr, k)
            /\ Return(<< >>, code, wire_synapses(Uniform(N, code), Uniform(N, message)))

\* -------------------------------------------------------------- Validate
\* The empty-request, invalid-request and request-length checks.
Validate ==
    /\ pc = "validate"
    /\ LET v == IF rpc = "Forward"
                THEN forward_validation(request.tensors, N)
                ELSE backward_validation(request.tensors, N)
       IN IF v.code = "pass"
          THEN /\ pc' = "decode"
               /\ UNCHANGED << synapse_codes, synapse_messages, synapse_call_times,
                               req_codes, req_messages, response, trace >>
          ELSE StopAll(v.code, v.message, "validate", trace, 1)
    /\ UNCHANGED << config, rpc, request, task, synapse_is_response,
                    synapse_responses, deserialized_forward_tensors,
                    deserialized_forward_gradients, response_tensors,
                    response_synapses >>

\* ---------------------------------------------------------------- Decode
\* What decoding one synapse's payload(s) can do. Forward decodes the input
\* only; backward decodes the input and then the gradient against it.
DecodeOutcomes ==
    IF rpc = "Forward"
    THEN {"ok", "ValueError", "Exception"}
    ELSE {"ok", "ValueError", "Exception", "GradValueError", "GradException"}

\* a decode handler whose two except branches write the same code
decode_code_shape(o) ==
    CASE o = "ok" -> Success
      [] OTHER -> RequestShapeException

decode_code(o) ==
    CASE o = "ok" -> Success
      [] o \in {"ValueError", "GradValueError"} -> RequestShapeException
      [] OTHER -> RequestDeserializationException

decode_message(o) ==
    CASE o = "ok" -> "Success"
      [] o \in {"ValueError", "GradValueError"} -> "InputShape"
      [] OTHER -> "InputDeserialization"

\* the request payload decoded as the input of synapse i
input_position(i, n) == i

\* a request laid out as input, gradient, input, gradient, ...
gradient_position_interleaved(i, n) == 2 * i

\* the request payload decoded as the gradient of synapse i:
\* request.tensors [ len( synapses ) + index ]
gradient_position(i, n) == n + i

\* the forward tensor the gradient of synapse i is decoded against:
\* deserialized_forward_tensors [index], just decoded
gradient_reference(i, tensors) == tensors[i]

\* The decode loop over all synapses, then the stop check.
Decode(outs) ==
    /\ pc = "decode"
    /\ LET codes == [i \in 1..N |-> IF outs[i] = "ok" THEN synapse_codes[i]
                                    ELSE decode_code(outs[i])]
           msgs  == [i \in 1..N |-> IF outs[i] = "ok" THEN synapse_messages[i]
                                    ELSE decode_message(outs[i])]
           times == [i \in 1..N |-> IF outs[i] = "ok" THEN synapse_call_times[i]
                                    ELSE "decode"]
           tensors == [i \in 1..N |-> IF outs[i] \in {"ValueError", "Exception"}
                                      THEN 0 ELSE input_position(i, N)]
           reached(i) == rpc = "Backward" /\ outs[i] \notin {"ValueError", "Exception"}
           tr    == [trace EXCEPT !.decoded = 1..N,
                                  !.decode_failed = {i \in 1..N : outs[i] # "ok"},
                                  !.decode_outs = outs,
                                  !.after_decode = codes,
                                  !.grad_read =
                                      [i \in 1..N |-> IF reached(i)
                                                      THEN gradient_position(i, N)
                                                      ELSE 0],
                                  !.grad_against =
                                      [i \in 1..N |-> IF reached(i)
                                                      THEN gradient_reference(i, tensors)
                                                      ELSE 0]]
       IN /\ synapse_codes' = codes
          /\ synapse_messages' = msgs
          /\ synapse_call_times' = times
          /\ deserialized_forward_tensors' = tensors
          /\ deserialized_forward_gradients' =
                [i \in 1..N |-> IF rpc = "Backward" /\ outs[i] = "ok"
                                THEN gradient_position(i, N) ELSE 0]
          /\ IF check_if_should_return(codes)
             THEN IF prometheus = "unset"
                  THEN Raise(tr)
                  ELSE /\ finalize_codes_stats_and_logs(codes, msgs, tr, 1)
                       /\ Return(<< >>, first_code(codes), wire_synapses(codes, msgs))
             ELSE /\ pc' = "compute"
                  /\ trace' = tr
                  /\ UNCHANGED << req_codes, req_messages, response >>
    /\ UNCHANGED << config, rpc, request, task, synapse_is_response,
                    synapse_responses, response_tensors, response_synapses >>

\* --------------------------------------------------------------- Compute
\* the synapses handed to the priority function and to the callback:
\* inputs_x = deserialized_forward_tensors, synapses = synapses, whole lists
compute_batch(n, codes) == 1..n

\* a compute block with the two branches the wrong way round
priority_mode_inverted == ~priority

\* the test that picks the branch of the compute block:
\* if self.priority != None
priority_mode == priority

\* one invocation (or pool task) per synapse
callback_invocations_per_synapse(n) == n

\* how many times the compute block calls (or submits) the callback for a
\* batch of n synapses: once, outside any loop, with the whole lists
callback_invocations(n) == 1

\* a backward call that blocks on the future as the forward call does
backward_after_submit_wait == "waiting"

\* where _backward goes after priority_threadpool.submit: straight on
backward_after_submit == "final"

\* a forward call that does not wait for its future either
forward_after_submit_on == "final"

\* where _forward goes after priority_threadpool.submit: it blocks in
\* future.result( timeout = self.forward_timeout )
forward_after_submit == "waiting"

\* the outputs a callback returns for a batch of n synapses: one per synapse
callback_tensors(n) == [i \in 1..n |-> i]

\* a code the forward timeout handler could write by mistake
timeout_code_unknown == UnknownException

\* the code the forward timeout handler (except TimeoutError) writes
timeout_code == Timeout

\* What the caller does with the outcome res of the forward callback, got
\* from a direct call or from future.result: copy codes and messages, or
\* land in the timeout / unknown-exception handler. k counts the runs of
\* finalize in the current action up to and including the handler's.
forward_outcome(res, tr, k) ==
    CASE res.kind = "return" ->
            /\ synapse_is_response' = Uniform(N, TRUE)
            /\ synapse_codes' = res.codes
            /\ synapse_messages' = Uniform(N, "Callback")
            /\ response_tensors' = callback_tensors(N)
            /\ pc' = "encode"
            /\ UNCHANGED << synapse_call_times, response >>
            /\ LET tr1 == [tr EXCEPT !.after_compute = res.codes] IN
               IF k = 1
               THEN trace' = tr1 /\ UNCHANGED << req_codes, req_messages >>
               ELSE finalize_codes_stats_and_logs(synapse_codes, synapse_messages, tr1, 1)
      [] res.kind = "short" ->
            /\ synapse_is_response' = Uniform(N, TRUE)
            /\ response_tensors' = callback_tensors(N)
            /\ StopAll(UnknownException, "Exception", "compute",
                       [tr EXCEPT !.fault = "exception"], k)
      [] res.kind = "raise" ->
            /\ UNCHANGED << synapse_is_response, response_tensors >>
            /\ StopAll(UnknownException, "Exception", "compute",
                       [tr EXCEPT !.fault = "exception"], k)
      [] res.kind = "timeout" ->
            /\ UNCHANGED << synapse_is_response, response_tensors >>
            /\ StopAll(timeout_code, "Request reached timeout", "compute",
                       [tr EXCEPT !.fault = "timeout"], k)

\* Forward compute without a priority function: the callback runs on the
\* calling thread.
ForwardDirect(res) ==
    /\ pc = "compute" /\ rpc = "Forward" /\ ~priority_mode
    /\ IF prometheus = "unset"
       THEN /\ StopAll(UnknownException, "Exception", "compute", trace, 1)
            /\ UNCHANGED << synapse_is_response, response_tensors >>
       ELSE forward_outcome(res,
                [trace EXCEPT !.direct_calls = @ + callback_invocations(N),
                              !.batch = compute_batch(N, synapse_codes)], 2)
    /\ UNCHANGED << config, rpc, request, task, synapse_responses,
                    deserialized_forward_tensors, deserialized_forward_gradients,
                    response_synapses >>

\* What evaluating self.priority and submitting to the pool can do.
SubmitOutcomes == {"ok", "priority_raises", "priority_timeout", "submit_raises"}

\* Forward compute with a priority function: evaluate the priority, submit
\* the callback to the pool, then block in future.result.
ForwardSubmit(o) ==
    /\ pc = "compute" /\ rpc = "Forward" /\ priority_mode
    /\ UNCHANGED << synapse_is_response, response_tensors >>
    /\ LET tr == [trace EXCEPT !.priority_evals = @ + 1,
                               !.batch = compute_batch(N, synapse_codes)] IN
       IF prometheus = "unset"
       THEN /\ StopAll(UnknownException, "Exception", "compute", trace, 1)
            /\ UNCHANGED task
       ELSE CASE o = "ok" ->
                    /\ task' = [state |-> "queued", kind |-> "Forward", result |-> NoResult]
                    /\ pc' = forward_after_submit
                    /\ finalize_codes_stats_and_logs(synapse_codes, synapse_messages,
                            [tr EXCEPT !.submits = @ + callback_invocations(N)], 1)
                    /\ UNCHANGED << synapse_codes, synapse_messages,
                                    synapse_call_times, response >>
              [] o = "priority_timeout" ->
                    \* except TimeoutError: future.cancel() with future unbound
                    /\ pc' = "raised"
                    /\ finalize_codes_stats_and_logs(synapse_codes, synapse_messages,
                            [tr EXCEPT !.fault = "timeout"], 1)
                    /\ UNCHANGED << task, synapse_codes, synapse_messages,
                                    synapse_call_times, response >>
              [] OTHER ->
                    /\ StopAll(UnknownException, "Exception", "compute",
                               [tr EXCEPT !.fault = "exception"], 2)
                    /\ UNCHANGED task
    /\ UNCHANGED << config, rpc, request, synapse_responses,
                    deserialized_forward_tensors, deserialized_forward_gradients,
                    response_synapses >>

\* A pool worker takes the queued task and invokes the callback.
WorkerStart ==
    /\ task.state = "queued"
    /\ task' = [task EXCEPT !.state = "running"]
    /\ trace' = [trace EXCEPT !.worker_calls = @ + 1]
    /\ UNCHANGED << config, rpc, request, req_codes, req_messages, pc, locals,
                    response >>

\* a callback that was handed the handler's synapse_codes list and fills it
\* in place
callback_effect_shared(res, codes) ==
    IF res.kind = "return" THEN res.codes ELSE codes

\* What the submitted callback does to the handler's codes when it ends:
\* nothing. submit hands it inputs_x, synapses, priority and hotkey, none of
\* the outcome lists; its codes travel in the return value.
callback_effect(res, codes) == codes

\* The callback running on the worker ends; the future holds its outcome.
\* (A deadline that expires just before this step and is handled just after
\* it ends in the same state as FutureTimeout followed by this step:
\* cancel leaves a running and a finished task alike.)
WorkerFinish(res) ==
    /\ task.state = "running"
    /\ task' = [task EXCEPT !.state = "done", !.result = res]
    /\ synapse_codes' = callback_effect(res, synapse_codes)
    /\ UNCHANGED << config, rpc, request, req_codes, req_messages, pc,
                    synapse_messages, synapse_call_times, synapse_is_response,
                    synapse_responses, deserialized_forward_tensors,
                    deserialized_forward_gradients, response_tensors,
                    response_synapses, response, trace >>

\* future.result returns (or re-raises) the outcome of the finished task.
FutureResult ==
    /\ pc = "waiting" /\ task.state = "done"
    /\ forward_outcome(task.result,
            [trace EXCEPT !.cancel_requested = (task.result.kind = "timeout")], 1)
    /\ UNCHANGED << config, rpc, request, task, synapse_responses,
                    deserialized_forward_tensors, deserialized_forward_gradients,
                    response_synapses >>

\* future.cancel(): a queued task is dropped, a running one keeps running
cancel(t) == IF t.state = "queued" THEN [t EXCEPT !.state = "cancelled"] ELSE t

\* a timeout handler that leaves the future alone
timeout_cancel_skipped(t) == t

\* the timeout handler's first statement: if self.priority != None:
\* future.cancel()
timeout_cancel(t) == cancel(t)

\* future.result( timeout = self.forward_timeout ) gives up: the task is
\* cancelled and every outcome becomes Timeout.
FutureTimeout ==
    /\ pc = "waiting" /\ forward_timeout # "None"
    /\ task.state \in {"queued", "running"}
    /\ task' = timeout_cancel(task)
    /\ StopAll(timeout_code, "Request reached timeout", "compute",
               [trace EXCEPT !.cancel_requested = TRUE, !.deadline_expired = TRUE,
                             !.fault = "timeout", !.expired_in = task.state], 1)
    /\ UNCHANGED << config, rpc, request, synapse_is_response, synapse_responses,
                    deserialized_forward_tensors, deserialized_forward_gradients,
                    response_tensors, response_synapses >>

\* What the caller does with the outcome res of the backward callback called
\* on the calling thread (finalize has run once in this action already).
backward_outcome(res, tr) ==
    CASE res.kind = "return" ->
            /\ synapse_codes' = res.codes
            /\ synapse_messages' = Uniform(N, "Callback")
            /\ response_tensors' = callback_tensors(N)
            /\ pc' = "final"
            /\ finalize_codes_stats_and_logs(synapse_codes, synapse_messages,
                    [tr EXCEPT !.after_compute = res.codes], 1)
            /\ UNCHANGED << synapse_call_times, response >>
      [] res.kind = "short" ->
            /\ response_tensors' = callback_tensors(N)
            /\ StopAll(UnknownException, "Exception", "compute",
                       [tr EXCEPT !.fault = "exception"], 2)
      [] res.kind = "raise" ->
            /\ UNCHANGED response_tensors
            /\ StopAll(UnknownException, "Exception", "compute",
                       [tr EXCEPT !.fault = "exception"], 2)
      [] res.kind = "timeout" ->
            /\ UNCHANGED response_tensors
            /\ StopAll(Timeout, "Request reached timeout", "compute",
                       [tr EXCEPT !.fault = "timeout"], 2)

\* Backward compute without a priority function.
BackwardDirect(res) ==
    /\ pc = "compute" /\ rpc = "Backward" /\ ~priority_mode
    /\ IF prometheus = "unset"
       THEN /\ StopAll(UnknownException, "Exception", "compute", trace, 1)
            /\ UNCHANGED << synapse_is_response, response_tensors >>
       ELSE /\ synapse_is_response' = Uniform(N, TRUE)
            /\ backward_outcome(res,
                    [trace EXCEPT !.direct_calls = @ + callback_invocations(N),
                                  !.batch = compute_batch(N, synapse_codes)])
    /\ UNCHANGED << config, rpc, request, task, synapse_responses,
                    deserialized_forward_tensors, deserialized_forward_gradients,
                    response_synapses >>

\* Backward compute with a priority function: submit and do not wait.
BackwardSubmit(o) ==
    /\ pc = "compute" /\ rpc = "Backward" /\ priority_mode
    /\ UNCHANGED response_tensors
    /\ LET tr == [trace EXCEPT !.priority_evals = @ + 1,
                               !.batch = compute_batch(N, synapse_codes)] IN
       IF prometheus = "unset"
       THEN /\ StopAll(UnknownException, "Exception", "compute", trace, 1)
            /\ UNCHANGED << task, synapse_is_response >>
       ELSE /\ synapse_is_response' = Uniform(N, TRUE)
            /\ CASE o = "ok" ->
                    /\ task' = [state |-> "queued", kind |-> "Backward", result |-> NoResult]
                    /\ pc' = backward_after_submit
                    /\ finalize_codes_stats_and_logs(synapse_codes, synapse_messages,
                            [tr EXCEPT !.submits = @ + callback_invocations(N)], 1)
                    /\ UNCHANGED << synapse_codes, synapse_messages,
                                    synapse_call_times, response >>
                 [] o = "priority_timeout" ->
                    /\ StopAll(Timeout, "Request reached timeout", "compute",
                               [tr EXCEPT !.fault = "timeout"], 2)
                    /\ UNCHANGED task
                 [] OTHER ->
                    /\ StopAll(UnknownException, "Exception", "compute",
                               [tr EXCEPT !.fault = "exception"], 2)
                    /\ UNCHANGED task
    /\ UNCHANGED << config, rpc, request, synapse_responses,
                    deserialized_forward_tensors, deserialized_forward_gradients,
                    response_synapses >>

\* ---------------------------------------------------------------- Encode
\* What serialize_forward_response_tensor can do for one synapse.
EncodeOutcomes == {"ok", "EmptyResponse", "ValueError", "Exception"}

\* the encode handler without the 'Empty Response' test
encode_code_no_empty(o) ==
    CASE o = "ok" -> Success
      [] o \in {"EmptyResponse", "ValueError"} -> ResponseShapeException
      [] OTHER -> ResponseSerializationException

encode_code(o) ==
    CASE o = "ok" -> Success
      [] o = "EmptyResponse" -> EmptyResponse
      [] o = "ValueError" -> ResponseShapeException
      [] OTHER -> ResponseSerializationException

encode_message(o) ==
    CASE o \in {"EmptyResponse", "ValueError"} -> "ResponseShape"
      [] OTHER -> "ResponseSerialization"

\* an encode branch that serializes every synapse
should_serialize_all(code) == TRUE

\* the branch of the encode loop: only a synapse still Success is serialized
should_serialize(code) == code = Success

\* a payload taken from the first synapse's output
encoded_payload_first(i, outputs) == outputs[1]

\* serialize_forward_response_tensor of synapse i: the encoding of
\* forward_response_tensors[ index ]
encoded_payload(i, outputs) == outputs[i]

\* wire protos built from the codes the encode loop started with
encoded_synapses_stale(codes, msgs, codes0, msgs0) == wire_synapses(codes0, msgs0)

\* response_synapses: serialize_to_wire_proto with the synapse's code and
\* message at the end of its iteration
encoded_synapses(codes, msgs, codes0, msgs0) == wire_synapses(codes, msgs)

\* The encode loop of _forward over all synapses.
Encode(outs) ==
    /\ pc = "encode"
    /\ \A i \in 1..N : ~should_serialize(synapse_codes[i]) => outs[i] = "ok"
    /\ LET hit(i) == should_serialize(synapse_codes[i]) /\ outs[i] # "ok"
           codes == [i \in 1..N |-> IF hit(i) THEN encode_code(outs[i])
                                    ELSE synapse_codes[i]]
           msgs  == [i \in 1..N |-> IF hit(i) THEN encode_message(outs[i])
                                    ELSE synapse_messages[i]]
       IN /\ synapse_codes' = codes
          /\ synapse_messages' = msgs
          /\ synapse_call_times' = [i \in 1..N |-> IF hit(i) THEN "encode"
                                                   ELSE synapse_call_times[i]]
          /\ synapse_responses' =
                [i \in 1..N |-> IF should_serialize(synapse_codes[i]) /\ outs[i] = "ok"
                                THEN encoded_payload(i, response_tensors) ELSE 0]
          /\ response_synapses' =
                encoded_synapses(codes, msgs, synapse_codes, synapse_messages)
    /\ trace' = [trace EXCEPT
                    !.encoded = {i \in 1..N : should_serialize(synapse_codes[i])},
                    !.encode_loop = TRUE,
                    !.before_encode = synapse_codes,
                    !.encode_outs = outs]
    /\ pc' = "final"
    /\ UNCHANGED << config, rpc, request, req_codes, req_messages, task,
                    synapse_is_response, deserialized_forward_tensors,
                    deserialized_forward_gradients, response_tensors, response >>

\* ----------------------------------------------------------------- Final
\* the tensors of a successful _forward return
forward_tensors(responses, cb) == responses

\* a _backward that hands the callback's tensors back
backward_tensors_callback(responses, cb) == cb

\* the tensors of a successful _backward return: always an empty list
backward_tensors(responses, cb) == << >>

\* The last stop check, the elapsed times of the successful synapses, the
\* last finalize and the return.
Final ==
    /\ pc = "final"
    /\ IF check_if_should_return(synapse_codes)
       THEN /\ UNCHANGED synapse_call_times
            /\ IF prometheus = "unset"
               THEN Raise(trace)
               ELSE /\ finalize_codes_stats_and_logs(synapse_codes, synapse_messages, trace, 1)
                    /\ Return(<< >>, first_code(synapse_codes),
                              wire_synapses(synapse_codes, synapse_messages))
       ELSE /\ synapse_call_times' =
                  [i \in 1..N |-> IF synapse_codes[i] = Success THEN "final"
                                  ELSE synapse_call_times[i]]
            /\ IF prometheus = "unset"
               THEN Raise(trace)
               ELSE /\ finalize_codes_stats_and_logs(synapse_codes, synapse_messages, trace, 1)
                    /\ IF rpc = "Forward"
                       THEN Return(forward_tensors(synapse_responses, response_tensors),
                                   Success, response_synapses)
                       ELSE Return(backward_tensors(synapse_responses, response_tensors),
                                   Success,
                                   wire_synapses(synapse_codes, synapse_messages))
    /\ UNCHANGED << config, rpc, request, task, synapse_codes, synapse_messages,
                    synapse_is_response, synapse_responses,
                    deserialized_forward_tensors, deserialized_forward_gradients,
                    response_tensors, response_synapses >>

\* --------------------------------------------------------------- Release
\* The RPC is over (response sent, or the exception handed to the transport)
\* and the pool holds no live task of it: the call's objects are dropped and
\* the servicer takes the next request.
Release ==
    /\ pc \in {"returned", "raised"}
    /\ task.state \notin {"queued", "running"}
    /\ rpc' = "none"
    /\ request' = [tensors |-> 0, nsyn |-> 0, requires_grad |-> FALSE, wire_ok |-> TRUE]
    /\ req_codes' = << >>
    /\ req_messages' = << >>
    /\ pc' = "idle"
    /\ synapse_codes' = << >>
    /\ synapse_messages' = << >>
    /\ synapse_call_times' = << >>
    /\ synapse_is_response' = << >>
    /\ synapse_responses' = << >>
    /\ deserialized_forward_tensors' = << >>
    /\ deserialized_forward_gradients' = << >>
    /\ response_tensors' = << >>
    /\ response_synapses' = << >>
    /\ task' = NoTask
    /\ response' = NoResponse
    /\ trace' = NoTrace
    /\ UNCHANGED config

\* ------------------------------------------------------------------ Next
Next ==
    \/ \E kind \in {"Forward", "Backward"}, nt \in 0..MaxTensors, ns \in 0..MaxSyn,
          rg \in BOOLEAN, ok \in BOOLEAN : Receive(kind, nt, ns, rg, ok)
    \/ Validate
    \/ \E outs \in [1..N -> DecodeOutcomes] : Decode(outs)
    \/ \E res \in CallbackResults(N) : ForwardDirect(res)
    \/ \E o \in SubmitOutcomes : ForwardSubmit(o)
    \/ WorkerStart
    \/ \E res \in CallbackResults(N) : WorkerFinish(res)
    \/ FutureResult
    \/ FutureTimeout
    \/ \E res \in CallbackResults(N) : BackwardDirect(res)
    \/ \E o \in SubmitOutcomes : BackwardSubmit(o)
    \/ \E outs \in [1..N -> EncodeOutcomes] : Encode(outs)
    \/ Final
    \/ Release

Spec == Init /\ [][Next]_vars

\* ------------------------------------------------------------- scheduling
\* A step of the thread that handles the RPC: the handler is straight-line
\* code, so the thread takes its next step whenever it has one. Blocked in
\* future.result it has a step only once the task is finished or, with a
\* deadline configured, once the deadline elapses.
CallerStep ==
    \/ Validate
    \/ \E outs \in [1..N -> DecodeOutcomes] : Decode(outs)
    \/ \E res \in CallbackResults(N) : ForwardDirect(res)
    \/ \E o \in SubmitOutcomes : ForwardSubmit(o)
    \/ FutureResult
    \/ FutureTimeout
    \/ \E res \in CallbackResults(N) : BackwardDirect(res)
    \/ \E o \in SubmitOutcomes : BackwardSubmit(o)
    \/ \E outs \in [1..N -> EncodeOutcomes] : Encode(outs)
    \/ Final

\* The handler thread keeps running and a pool worker takes a queued task;
\* nothing makes a callback running on a worker finish.
LiveSpec == Init /\ [][Next]_vars /\ WF_vars(CallerStep) /\ WF_vars(WorkerStart)

\* ===================================================== concurrent calls
\* Each inbound RPC is handled on its own transport thread. Every list of
\* _forward / _backward is a local of that handler invocation and
\* request.synapses belongs to that RPC's request; the threads share the
\* axon's settings, its metrics counters and the worker pool. A payload is
\* << c, p >>: the payload at position p of the request of call c (<< >> for
\* None / synapse.empty()); a callback's output for synapse i of call c is
\* << c, i >>. The first thread serves requests of one synapse, the second
\* requests of one or two, so that the lists of the two calls can differ in
\* length as well as in content.
ConcSizes(c) == IF c = "t1" THEN {1} ELSE {1, 2}

\* the single record every concurrent call would write to if the outcome
\* lists were attributes of the axon instead of locals of the invocation
outcome_owner_shared(c) == "t1"

\* whose lists the handler thread of call c reads and writes: the locals
\* created by its own invocation of _forward / _backward
outcome_owner(c) == c

NoEvent == [ev |-> "none", tag |-> "", outs |-> << >>, res |-> NoResult]

\* synapse_codes, synapse_messages, ... = [ ... for _ in synapses ]
out_init(n) ==
    [NoOut EXCEPT !.codes = Uniform(n, Success),
                  !.messages = Uniform(n, "Success"),
                  !.times = Uniform(n, "zero"),
                  !.inputs = Uniform(n, << >>),
                  !.gradients = Uniform(n, << >>),
                  !.payloads = Uniform(n, << >>)]

\* the call-wide stop of a handler thread: uniform code, message and
\* elapsed time, finalize, return [], code, request.synapses
out_stop(o, n, code, message, stamp) ==
    [o EXCEPT !.codes = Uniform(n, code),
              !.messages = Uniform(n, message),
              !.times = Uniform(n, stamp),
              !.response = [return_code |-> code, tensors |-> << >>,
                            requires_grad |-> FALSE,
                            synapses |-> wire_synapses(Uniform(n, code),
                                                       Uniform(n, message))]]

\* return [], synapse_codes[0], request.synapses after a stop check
out_return_first(o) ==
    [o EXCEPT !.response = [return_code |-> first_code(o.codes), tensors |-> << >>,
                            requires_grad |-> FALSE,
                            synapses |-> wire_synapses(o.codes, o.messages)]]

\* the decode loop and the stop check after it, on the lists of call c
out_decode(c, kind, n, o, outs) ==
    LET d == [o EXCEPT
                !.codes = [i \in 1..n |-> IF outs[i] = "ok" THEN o.codes[i]
                                          ELSE decode_code(outs[i])],
                !.messages = [i \in 1..n |-> IF outs[i] = "ok" THEN o.messages[i]
                                             ELSE decode_message(outs[i])],
                !.times = [i \in 1..n |-> IF outs[i] = "ok" THEN o.times[i]
                                          ELSE "decode"],
                !.inputs = [i \in 1..n |-> IF outs[i] \in {"ValueError", "Exception"}
                                           THEN << >>
                                           ELSE << c, input_position(i, n) >>],
                !.gradients = [i \in 1..n |-> IF kind = "Backward" /\ outs[i] = "ok"
                                              THEN << c, gradient_position(i, n) >>
                                              ELSE << >>]]
    IN IF check_if_should_return(d.codes) THEN out_return_first(d) ELSE d

\* what the handler does with the callback's outcome res (direct call or
\* future.result): copy its codes and messages, or stop the call
out_outcome(c, n, o, res) ==
    CASE res.kind = "return" ->
            [o EXCEPT !.codes = res.codes,
                      !.messages = Uniform(n, "Callback"),
                      !.outputs = [i \in 1..n |-> << c, i >>]]
      [] res.kind = "short" ->
            out_stop([o EXCEPT !.outputs = [i \in 1..n |-> << c, i >>]],
                     n, UnknownException, "Exception", "compute")
      [] res.kind = "raise" ->
            out_stop(o, n, UnknownException, "Exception", "compute")
      [] res.kind = "timeout" ->
            out_stop(o, n, timeout_code, "Request reached timeout", "compute")

\* the encode loop of _forward on the lists of one call
out_encode(n, o, outs) ==
    LET hit(i) == should_serialize(o.codes[i]) /\ outs[i] # "ok"
        codes == [i \in 1..n |-> IF hit(i) THEN encode_code(outs[i]) ELSE o.codes[i]]
        msgs  == [i \in 1..n |-> IF hit(i) THEN encode_message(outs[i])
                                 ELSE o.messages[i]]
    IN [o EXCEPT
            !.codes = codes,
            !.messages = msgs,
            !.times = [i \in 1..n |-> IF hit(i) THEN "encode" ELSE o.times[i]],
            !.payloads = [i \in 1..n |->
                            IF should_serialize(o.codes[i]) /\ outs[i] = "ok"
                            THEN encoded_payload(i, o.outputs) ELSE << >>],
            !.synapses = encoded_synapses(codes, msgs, o.codes, o.messages)]

\* the last stop check, the elapsed times, finalize and the return
out_final(kind, n, o) ==
    IF check_if_should_return(o.codes)
    THEN out_return_first(o)
    ELSE [o EXCEPT
            !.times = [i \in 1..n |-> IF o.codes[i] = Success THEN "final"
                                      ELSE o.times[i]],
            !.response =
                [return_code |-> Success,
                 tensors |-> IF kind = "Forward"
                             THEN forward_tensors(o.payloads, o.outputs)
                             ELSE backward_tensors(o.payloads, o.outputs),
                 requires_grad |-> FALSE,
                 synapses |-> IF kind = "Forward" THEN o.synapses
                              ELSE wire_synapses(o.codes, o.messages)]]

\* One step e of the handler thread of call c, whose request and lists are
\* t: the lists after the step.
thread_apply(c, t, e) ==
    LET o == t.out
        n == t.nsyn
    IN CASE e.ev = "receive" -> out_init(n)
         [] e.ev = "validate" ->
                LET v == IF t.kind = "Forward"
                         THEN forward_validation(t.tensors, n)
                         ELSE backward_validation(t.tensors, n)
                IN IF v.code = "pass" THEN o
                   ELSE out_stop(o, n, v.code, v.message, "validate")
         [] e.ev = "decode" -> out_decode(c, t.kind, n, o, e.outs)
         [] e.ev = "submit" ->
                IF e.tag = "ok" \/ (e.tag = "priority_timeout" /\ t.kind = "Forward")
                THEN o
                ELSE IF e.tag = "priority_timeout"
                THEN out_stop(o, n, Timeout, "Request reached timeout", "compute")
                ELSE out_stop(o, n, UnknownException, "Exception", "compute")
         [] e.ev = "outcome" -> out_outcome(c, n, o, e.res)
         [] e.ev = "expire" ->
                out_stop(o, n, timeout_code, "Request reached timeout", "compute")
         [] e.ev = "encode" -> out_encode(n, o, e.outs)
         [] e.ev = "final" -> out_final(t.kind, n, o)

\* The step e of call c: the thread's position becomes next (or "returned"
\* once the step produced the response), the step joins the call's history,
\* the lists are read and written where the invocation keeps them, and the
\* shared counters move by the k runs of finalize.
ThreadStep(c, t, e, next, fut, k) ==
    LET own == outcome_owner(c)
        new == thread_apply(c, [t EXCEPT !.out = calls[own].out], e)
        at  == IF new.response # NoResponse /\ next # "raised" THEN "returned" ELSE next
    IN /\ calls' = [calls EXCEPT ![c] = [t EXCEPT !.pc = at,
                                                  !.log = Append(t.log, e),
                                                  !.future = fut,
                                                  !.out = calls[c].out],
                                 ![own].out = new]
       /\ metrics' = metrics + (IF prometheus = "on" THEN k ELSE 0)
       /\ UNCHANGED << priority, forward_timeout, prometheus, dispatch, rpc,
                       request, req_codes, req_messages, pc, locals, task,
                       response, trace, attached >>

ThreadReceive(c, kind, nt, ns) ==
    /\ calls[c].pc = "idle" /\ calls[c].kind = "none"
    /\ ThreadStep(c, [calls[c] EXCEPT !.kind = kind, !.tensors = nt, !.nsyn = ns],
                  [NoEvent EXCEPT !.ev = "receive"], "validate", NoTask, 0)

ThreadValidate(c) ==
    /\ calls[c].pc = "validate"
    /\ ThreadStep(c, calls[c], [NoEvent EXCEPT !.ev = "validate"], "decode", NoTask,
                  IF (IF calls[c].kind = "Forward"
                      THEN forward_validation(calls[c].tensors, calls[c].nsyn)
                      ELSE backward_validation(calls[c].tensors, calls[c].nsyn)).code
                        = "pass"
                  THEN 0 ELSE 1)

ThreadDecode(c, outs) ==
    /\ calls[c].pc = "decode"
    /\ ThreadStep(c, calls[c], [NoEvent EXCEPT !.ev = "decode", !.outs = outs],
                  "compute", NoTask,
                  IF \A i \in DOMAIN outs : outs[i] # "ok" THEN 1 ELSE 0)

\* the callback called on the handler thread (no priority function)
ThreadDirect(c, res) ==
    /\ calls[c].pc = "compute" /\ ~priority_mode
    /\ ThreadStep(c, calls[c], [NoEvent EXCEPT !.ev = "outcome", !.res = res],
                  IF calls[c].kind = "Forward" THEN "encode" ELSE "final", NoTask,
                  IF calls[c].kind = "Forward" /\ res.kind = "return" THEN 1 ELSE 2)

\* priority evaluated and the callback submitted to the shared pool
ThreadSubmit(c, o) ==
    /\ calls[c].pc = "compute" /\ priority_mode
    /\ ThreadStep(c, calls[c], [NoEvent EXCEPT !.ev = "submit", !.tag = o],
                  IF calls[c].kind = "Forward"
                  THEN (IF o = "priority_timeout" THEN "raised" ELSE forward_after_submit)
                  ELSE backward_after_submit,
                  IF o = "ok"
                  THEN [state |-> "queued", kind |-> calls[c].kind, result |-> NoResult]
                  ELSE NoTask,
                  IF o = "ok" \/ (o = "priority_timeout" /\ calls[c].kind = "Forward")
                  THEN 1 ELSE 2)

\* a pool worker takes the queued task of call c
PoolStart(c) ==
    /\ calls[c].future.state = "queued"
    /\ calls' = [calls EXCEPT ![c].future.state = "running"]
    /\ UNCHANGED << priority, forward_timeout, prometheus, dispatch, rpc,
                    request, req_codes, req_messages, pc, locals, task,
                    response, trace, metrics, attached >>

\* the callback of call c ends on its worker; the future holds its outcome
PoolFinish(c, res) ==
    /\ calls[c].future.state = "running"
    /\ calls' = [calls EXCEPT ![c].future.state = "done", ![c].future.result = res]
    /\ UNCHANGED << priority, forward_timeout, prometheus, dispatch, rpc,
                    request, req_codes, req_messages, pc, locals, task,
                    response, trace, metrics, attached >>

\* future.result hands the finished task's outcome to the thread of call c
ThreadResult(c) ==
    /\ calls[c].pc = "waiting" /\ calls[c].future.state = "done"
    /\ ThreadStep(c, calls[c],
                  [NoEvent EXCEPT !.ev = "outcome", !.res = calls[c].future.result],
                  "encode", calls[c].future,
                  IF calls[c].future.result.kind = "return" THEN 0 ELSE 1)

\* the deadline of call c expires while its task is queued or running
ThreadTimeout(c) ==
    /\ calls[c].pc = "waiting" /\ forward_timeout # "None"
    /\ calls[c].future.state \in {"queued", "running"}
    /\ ThreadStep(c, calls[c], [NoEvent EXCEPT !.ev = "expire"], "returned",
                  timeout_cancel(calls[c].future), 1)

ThreadEncode(c, outs) ==
    /\ calls[c].pc = "encode"
    /\ \A i \in 1..calls[c].nsyn :
          ~should_serialize(calls[c].out.codes[i]) => outs[i] = "ok"
    /\ ThreadStep(c, calls[c], [NoEvent EXCEPT !.ev = "encode", !.outs = outs],
                  "final", calls[c].future, 0)

ThreadFinal(c) ==
    /\ calls[c].pc = "final"
    /\ ThreadStep(c, calls[c], [NoEvent EXCEPT !.ev = "final"], "returned",
                  calls[c].future, 1)

ConcurrentInit ==
    /\ priority \in BOOLEAN
    /\ forward_timeout = "set"
    /\ prometheus = "on"
    /\ NoCall
    /\ dispatch = NoDispatch
    /\ calls = NoCalls
    /\ metrics = 0
    /\ attached = NoAttach

ConcurrentNext ==
    \E c \in CallIds :
        \/ \E kind \in {"Forward", "Backward"}, ns \in ConcSizes(c) :
              \E nt \in 0..(2 * ns + 1) : ThreadReceive(c, kind, nt, ns)
        \/ ThreadValidate(c)
        \/ \E outs \in [1..calls[c].nsyn ->
                            IF calls[c].kind = "Forward"
                            THEN {"ok", "ValueError", "Exception"}
                            ELSE {"ok", "ValueError", "Exception",
                                  "GradValueError", "GradException"}] :
              ThreadDecode(c, outs)
        \/ \E res \in CallbackResults(calls[c].nsyn) : ThreadDirect(c, res)
        \/ \E o \in SubmitOutcomes : ThreadSubmit(c, o)
        \/ PoolStart(c)
        \/ \E res \in CallbackResults(calls[c].nsyn) : PoolFinish(c, res)
        \/ ThreadResult(c)
        \/ ThreadTimeout(c)
        \/ \E outs \in [1..calls[c].nsyn -> EncodeOutcomes] : ThreadEncode(c, outs)
        \/ ThreadFinal(c)

ConcurrentSpec == ConcurrentInit /\ [][ConcurrentNext]_vars

\* ====================================================== default callbacks
\* default_forward_callback and default_backward_callback, followed one loop
\* iteration at a time over a batch of synapses.
SynapseTypes == {"TEXT_LAST_HIDDEN_STATE", "TEXT_CAUSAL_LM"}

\* self.synapse_callbacks[t]: no key, a None entry, or a function
TableEntries == {"absent", "null", "present"}

\* what self.synapse_checks( synapse, hotkey ) does
CheckOutcomes == {"true", "false", "raises"}

\* what the registered synapse function (and autograd, in backward) does
FunctionOutcomes == {"ok", "raises"}

\* the forward branch with the table looked up before the admission check
forward_dispatch_table_first(entry, chk, f) ==
    IF chk = "raises"
    THEN [code |-> UnknownException, message |-> "Exception",
          admitted |-> FALSE, invoked |-> FALSE]
    ELSE IF entry # "present"
    THEN [code |-> NotImplemented, message |-> "Not Implemented",
          admitted |-> chk = "true", invoked |-> FALSE]
    ELSE IF chk = "false"
    THEN [code |-> UnknownException, message |-> "Synapse Check Failed",
          admitted |-> FALSE, invoked |-> FALSE]
    ELSE [code |-> IF f = "ok" THEN Success ELSE UnknownException,
          message |-> IF f = "ok" THEN "Success" ELSE "Exception",
          admitted |-> TRUE, invoked |-> TRUE]

\* One iteration of default_forward_callback: the admission check, then the
\* registered function, 'Synapse Check Failed' or 'Not Implemented'.
forward_dispatch(entry, chk, f) ==
    IF chk = "raises"
    THEN [code |-> UnknownException, message |-> "Exception",
          admitted |-> FALSE, invoked |-> FALSE]
    ELSE IF entry = "present" /\ chk = "true"
    THEN [code |-> IF f = "ok" THEN Success ELSE UnknownException,
          message |-> IF f = "ok" THEN "Success" ELSE "Exception",
          admitted |-> TRUE, invoked |-> TRUE]
    ELSE IF chk = "false"
    THEN [code |-> UnknownException, message |-> "Synapse Check Failed",
          admitted |-> FALSE, invoked |-> FALSE]
    ELSE [code |-> NotImplemented, message |-> "Not Implemented",
          admitted |-> TRUE, invoked |-> FALSE]

\* One iteration of default_backward_callback: the registered function and
\* autograd, or 'Not Implemented'; self.synapse_checks is not called.
backward_dispatch(entry, chk, f) ==
    IF entry = "present"
    THEN [code |-> IF f = "ok" THEN Success ELSE UnknownException,
          message |-> IF f = "ok" THEN "Success" ELSE "Exception",
          admitted |-> FALSE, invoked |-> TRUE]
    ELSE [code |-> NotImplemented, message |-> "Not Implemented",
          admitted |-> FALSE, invoked |-> FALSE]

DispatchInit ==
    /\ priority = FALSE
    /\ forward_timeout = "None"
    /\ prometheus = "off"
    /\ NoCall
    /\ dispatch = NoDispatch
    /\ calls = NoCalls
    /\ metrics = 0
    /\ attached = NoAttach

\* A default callback is entered with a batch of synapses (their types ty)
\* on an axon whose table of synapse functions is tb.
DispatchCall(k, tb, ty) ==
    /\ dispatch.kind = "none"
    /\ dispatch' = [NoDispatch EXCEPT !.kind = k, !.n = Len(ty), !.table = tb,
                                      !.types = ty]
    /\ UNCHANGED << priority, forward_timeout, prometheus, rpc, request,
                    req_codes, req_messages, pc, locals, task, response, trace,
                    calls, metrics, attached >>

\* One iteration of the loop over synapses; chk and f are what the admission
\* check and the registered function do for this synapse.
DispatchStep(chk, f) ==
    /\ dispatch.kind # "none" /\ dispatch.index <= dispatch.n
    /\ LET i == dispatch.index
           entry == dispatch.table[dispatch.types[i]]
           r == IF dispatch.kind = "forward"
                THEN forward_dispatch(entry, chk, f)
                ELSE backward_dispatch(entry, chk, f)
       IN dispatch' =
            [dispatch EXCEPT
                !.index = i + 1,
                !.checks = Append(@, chk),
                !.fns = Append(@, f),
                !.response_codes = Append(@, r.code),
                !.response_messages = Append(@, r.message),
                !.response_tensors =
                    Append(@, IF r.code = Success /\ dispatch.kind = "forward"
                              THEN i ELSE 0),
                !.admitted = IF r.admitted THEN @ \cup {i} ELSE @,
                !.invoked = IF r.invoked THEN @ \cup {i} ELSE @]
    /\ UNCHANGED << priority, forward_timeout, prometheus, rpc, request,
                    req_codes, req_messages, pc, locals, task, response, trace,
                    calls, metrics, attached >>

\* return response_tensors, response_codes, response_messages
DispatchReturn ==
    /\ dispatch.kind # "none" /\ dispatch.index = dispatch.n + 1
    /\ ~dispatch.returned
    /\ dispatch' = [dispatch EXCEPT !.returned = TRUE]
    /\ UNCHANGED << priority, forward_timeout, prometheus, rpc, request,
                    req_codes, req_messages, pc, locals, task, response, trace,
                    calls, metrics, attached >>

DispatchNext ==
    \/ \E k \in {"forward", "backward"}, tb \in [SynapseTypes -> TableEntries],
          n \in 0..MaxSyn : \E ty \in [1..n -> SynapseTypes] : DispatchCall(k, tb, ty)
    \/ \E chk \in CheckOutcomes, f \in FunctionOutcomes : DispatchStep(chk, f)
    \/ DispatchReturn

DispatchSpec == DispatchInit /\ [][DispatchNext]_vars

\* ======================================================= attach operations
\* The callables handed to the attach operations: two with the signature the
\* axon calls them with, two without (wrong arity, wrong parameter types).
Callbacks == {"callback_a", "callback_b", "wrong_arity", "wrong_types"}

compatible(cb) == cb \in {"callback_a", "callback_b"}

\* bittensor.axon.check_forward_callback / check_backward_callback: raise
\* for a callback whose signature does not fit
check_callback_raises(cb) == ~compatible(cb)

\* attach_forward_callback: check, then assign
attach_forward_callback(cb) ==
    /\ attached' =
          IF check_callback_raises(cb)
          THEN [attached EXCEPT !.op = "forward", !.callback = cb, !.key = "none",
                                !.before = attached.forward_callback,
                                !.raised = TRUE]
          ELSE [attached EXCEPT !.op = "forward", !.callback = cb, !.key = "none",
                                !.before = attached.forward_callback,
                                !.raised = FALSE,
                                !.forward_callback = cb]
    /\ UNCHANGED << priority, forward_timeout, prometheus, rpc, request,
                    req_codes, req_messages, pc, locals, task, response, trace,
                    dispatch, calls, metrics >>

\* attach_backward_callback: check, then assign
attach_backward_callback(cb) ==
    /\ attached' =
          IF check_callback_raises(cb)
          THEN [attached EXCEPT !.op = "backward", !.callback = cb, !.key = "none",
                                !.before = attached.backward_callback,
                                !.raised = TRUE]
          ELSE [attached EXCEPT !.op = "backward", !.callback = cb, !.key = "none",
                                !.before = attached.backward_callback,
                                !.raised = FALSE,
                                !.backward_callback = cb]
    /\ UNCHANGED << priority, forward_timeout, prometheus, rpc, request,
                    req_codes, req_messages, pc, locals, task, response, trace,
                    dispatch, calls, metrics >>

\* attach_synapse_callback: self.synapse_callbacks[synapse_type] =
\* synapse_callback, with no check
attach_synapse_callback(cb, synapse_type) ==
    /\ attached' =
          [attached EXCEPT !.op = "synapse", !.callback = cb, !.key = synapse_type,
                           !.before = attached.synapse_callbacks[synapse_type],
                           !.raised = FALSE,
                           !.synapse_callbacks[synapse_type] = cb]
    /\ UNCHANGED << priority, forward_timeout, prometheus, rpc, request,
                    req_codes, req_messages, pc, locals, task, response, trace,
                    dispatch, calls, metrics >>

AttachInit ==
    /\ priority = FALSE
    /\ forward_timeout = "None"
    /\ prometheus = "off"
    /\ NoCall
    /\ dispatch = NoDispatch
    /\ calls = NoCalls
    /\ metrics = 0
    /\ attached = NoAttach

AttachNext ==
    \/ \E cb \in Callbacks : attach_forward_callback(cb)
    \/ \E cb \in Callbacks : attach_backward_callback(cb)
    \/ \E cb \in Callbacks, ty \in SynapseTypes : attach_synapse_callback(cb, ty)

AttachSpec == AttachInit /\ [][AttachNext]_vars

\* ================================================================ claims
Returned == pc = "returned"

NothingComputed ==
    /\ trace.priority_evals = 0
    /\ trace.submits = 0
    /\ trace.direct_calls = 0
    /\ trace.worker_calls = 0
    /\ task.state = "none"

AllCodes(c) == \A i \in 1..N : synapse_codes[i] = c

\* C1: whenever Forward or Backward returns, the overall code is Success iff
\* some synapse outcome is Success, and otherwise it is the code of the
\* first synapse.
C1_OverallCode ==
    Returned =>
        /\ (response.return_code = Success) <=> (\E i \in 1..N : synapse_codes[i] = Success)
        /\ (response.return_code # Success /\ N > 0) =>
                response.return_code = synapse_codes[1]

\* C1 witness: a call returns with no Success outcome and two different
\* failure codes, reporting the first one.
C1_Witness ==
    /\ Returned /\ N >= 2
    /\ \A i \in 1..N : synapse_codes[i] # Success
    /\ synapse_codes[1] # synapse_codes[N]
    /\ response.return_code = synapse_codes[1]

\* C2: in a forward call where one synapse failed Decode with a shape error
\* and another decoded, the failed synapse still carries
\* RequestShapeException once Compute has completed and through Encode.
C2_DecodeFailureKept ==
    (rpc = "Forward" /\ pc \in {"encode", "final"}) =>
        \A i \in trace.decode_failed :
            (trace.after_decode[i] = RequestShapeException
                /\ \E j \in 1..N : trace.after_decode[j] = Success)
            => synapse_codes[i] = RequestShapeException

\* C3: no exception escapes Forward / Backward to the transport.
C3_NoEscape == pc # "raised"

\* C4: when the forward deadline expires in priority mode the call has asked
\* for cancellation, every outcome is Timeout, the overall code is Timeout
\* and the payload sequence is empty.
C4_DeadlineExpiry ==
    (Returned /\ trace.deadline_expired) =>
        /\ trace.cancel_requested
        /\ AllCodes(Timeout)
        /\ response.return_code = Timeout
        /\ response.tensors = << >>
        /\ \A i \in 1..N : response.synapses[i].code = Timeout

\* C4 witness: the call has returned Timeout while its task is still running
\* on a worker.
C4_Witness ==
    /\ Returned /\ trace.deadline_expired /\ rpc = "Forward" /\ priority
    /\ task.state = "running"
    /\ response.return_code = Timeout

\* C5: a call with no payload returns EmptyRequest for the call and for every
\* synapse, with one message, no payload, no decoding and no callback.
C5_EmptyRequest ==
    (Returned /\ request.tensors = 0) =>
        /\ response.return_code = EmptyRequest
        /\ AllCodes(EmptyRequest)
        /\ \A i \in 1..N : synapse_messages[i] = synapse_messages[1]
        /\ response.tensors = << >>
        /\ trace.decoded = {}
        /\ NothingComputed

\* C5 witness: a call with synapses and no payload has returned.
C5_Witness == Returned /\ request.tensors = 0 /\ N >= 1 /\ AllCodes(EmptyRequest)

\* C6 as stated: every Forward call whose payload count differs from its
\* synapse count reports RequestShapeException everywhere.
C6_Original ==
    (Returned /\ rpc = "Forward" /\ request.tensors # N) =>
        /\ response.return_code = RequestShapeException
        /\ AllCodes(RequestShapeException)
        /\ trace.decoded = {}
        /\ NothingComputed

\* C6 amended: every Forward call with at least one payload whose payload
\* count differs from its synapse count reports RequestShapeException for
\* the call and every synapse, decodes nothing and invokes no callback.
C6_LengthMismatch ==
    (Returned /\ rpc = "Forward" /\ request.tensors # 0 /\ request.tensors # N) =>
        /\ response.return_code = RequestShapeException
        /\ AllCodes(RequestShapeException)
        /\ trace.decoded = {}
        /\ NothingComputed

\* C6 witness: a forward call with fewer payloads than synapses has returned.
C6_Witness ==
    /\ Returned /\ rpc = "Forward"
    /\ request.tensors >= 1 /\ request.tensors < N
    /\ AllCodes(RequestShapeException)

\* C7 as stated: every Backward call with fewer than 2 payloads reports
\* InvalidRequest for the call and every synapse.
C7_Original ==
    (Returned /\ rpc = "Backward" /\ request.tensors < 2) =>
        /\ response.return_code = InvalidRequest
        /\ AllCodes(InvalidRequest)

\* C7 amended: every Backward call with exactly one payload reports
\* InvalidRequest for the call and every synapse.
C7_InvalidRequest ==
    (Returned /\ rpc = "Backward" /\ request.tensors = 1) =>
        /\ response.return_code = InvalidRequest
        /\ AllCodes(InvalidRequest)

\* C7 witness: a backward call with one payload has returned.
C7_Witness ==
    /\ Returned /\ rpc = "Backward" /\ request.tensors = 1 /\ N >= 1
    /\ AllCodes(InvalidRequest)

\* C8: a Backward call with at least 2 payloads but not exactly 2 per synapse
\* reports RequestShapeException for the call and every synapse, decodes
\* nothing, and neither invokes nor submits the callback.
C8_BackwardLengthMismatch ==
    (Returned /\ rpc = "Backward" /\ request.tensors >= 2 /\ request.tensors # 2 * N) =>
        /\ response.return_code = RequestShapeException
        /\ AllCodes(RequestShapeException)
        /\ trace.decoded = {}
        /\ NothingComputed

\* C8 witness: a backward call with more payloads than 2 per synapse has
\* returned.
C8_Witness ==
    /\ Returned /\ rpc = "Backward" /\ N >= 1
    /\ request.tensors > 2 * N
    /\ AllCodes(RequestShapeException)

\* C9: once every synapse has failed at Decode the call is over, reporting
\* the first synapse's decode failure, and no priority was evaluated, nothing
\* was submitted and no callback ran.
C9_DecodeShortCircuit ==
    (trace.decoded # {} /\ trace.decode_failed = 1..N) =>
        /\ pc \in {"returned", "raised"}
        /\ NothingComputed
        /\ Returned => /\ response.return_code = trace.after_decode[1]
                       /\ response.return_code # Success
                       /\ synapse_codes = trace.after_decode

\* C9 witness: a call whose synapses all failed Decode, with different
\* codes, has returned.
C9_Witness ==
    /\ Returned /\ N >= 2 /\ trace.decode_failed = 1..N
    /\ trace.after_decode[1] # trace.after_decode[2]

\* C10: every Backward response carries an empty payload sequence.
C10_BackwardEmptyPayload ==
    (Returned /\ rpc = "Backward") => response.tensors = << >>

\* C10 witness: a backward call whose callback ran and returned tensors has
\* returned Success.
C10_Witness ==
    /\ Returned /\ rpc = "Backward" /\ response.return_code = Success
    /\ trace.direct_calls = 1 /\ response_tensors # << >>

\* C11: from initialisation on, through validation, Decode, Compute and
\* Encode, the lists of codes, messages and elapsed times have one element per
\* synapse and every code is Success or a specific failure code.
C11_OutcomeLengths ==
    (pc # "idle" /\ request.wire_ok) =>
        /\ Len(synapse_codes) = N
        /\ Len(synapse_messages) = N
        /\ Len(synapse_call_times) = N
        /\ \A i \in 1..N : synapse_codes[i] \in ReturnCodes

\* C11 witness: a forward call with two synapses is past Encode, one synapse
\* failed and one still Success.
C11_Witness ==
    /\ pc = "final" /\ rpc = "Forward" /\ trace.encode_loop /\ N >= 2
    /\ synapse_codes[1] # Success /\ synapse_codes[2] = Success

\* C13: in every response the i-th descriptor carries the i-th final code and
\* message, the gradient-flow flag is the request's, and the payload sequence
\* is empty unless the overall code is Success.
C13_ResponseFields ==
    Returned =>
        /\ Len(response.synapses) = N
        /\ \A i \in 1..N : /\ response.synapses[i].code = synapse_codes[i]
                           /\ response.synapses[i].message = synapse_messages[i]
        /\ response.requires_grad = request.requires_grad
        /\ response.return_code # Success => response.tensors = << >>

\* C13 witness: a forward call with the gradient flag set returns Success
\* after one synapse's code was changed by the Encode stage.
C13_Witness ==
    /\ Returned /\ rpc = "Forward" /\ response.return_code = Success
    /\ request.requires_grad
    /\ \E i \in 1..N : synapse_codes[i] # trace.before_encode[i]

\* C14: a Success forward response has one payload per synapse, in order:
\* empty for a synapse that is not Success, the encoding of the synapse's own
\* output otherwise.
C14_ForwardPayloads ==
    (Returned /\ rpc = "Forward" /\ response.return_code = Success) =>
        /\ Len(response.tensors) = N
        /\ \A i \in 1..N :
              response.tensors[i] =
                  IF synapse_codes[i] = Success THEN response_tensors[i] ELSE 0

\* C14 witness: a Success forward response whose first synapse failed and
\* whose second synapse carries its own output.
C14_Witness ==
    /\ Returned /\ rpc = "Forward" /\ response.return_code = Success /\ N >= 2
    /\ synapse_codes[1] # Success /\ response.tensors[1] = 0
    /\ synapse_codes[2] = Success /\ response.tensors[2] = response_tensors[2]

\* C20: after the Encode stage, a synapse that entered it non-Success was not
\* serialized and has its code unchanged and an empty payload; a synapse that
\* entered it Success has Success and its payload, or EmptyResponse /
\* ResponseShapeException / ResponseSerializationException by the kind of
\* its own failure and an empty payload, whatever happened to the others.
C20_EncodeFrame ==
    (pc = "final" /\ trace.encode_loop) =>
        \A i \in 1..N :
            IF trace.before_encode[i] # Success
            THEN /\ synapse_codes[i] = trace.before_encode[i]
                 /\ synapse_responses[i] = 0
                 /\ i \notin trace.encoded
            ELSE /\ trace.encode_outs[i] = "ok" =>
                        synapse_codes[i] = Success /\ synapse_responses[i] # 0
                 /\ trace.encode_outs[i] = "EmptyResponse" =>
                        synapse_codes[i] = EmptyResponse /\ synapse_responses[i] = 0
                 /\ trace.encode_outs[i] = "ValueError" =>
                        synapse_codes[i] = ResponseShapeException /\ synapse_responses[i] = 0
                 /\ trace.encode_outs[i] = "Exception" =>
                        synapse_codes[i] = ResponseSerializationException
                            /\ synapse_responses[i] = 0

\* C20 witness: the first synapse's encode hit 'Empty Response' while the
\* second was encoded.
C20_Witness ==
    /\ pc = "final" /\ trace.encode_loop /\ N >= 2
    /\ trace.before_encode[1] = Success /\ trace.encode_outs[1] = "EmptyResponse"
    /\ synapse_codes[1] = EmptyResponse
    /\ synapse_codes[2] = Success /\ synapse_responses[2] # 0

\* C12: once the Compute stage of a call has hit an exception or a timeout,
\* the call has returned with UnknownException (Timeout for a timeout) as the
\* overall code and as every synapse's code, and with no payload.
C12_ComputeFaultUniform ==
    (prometheus # "unset" /\ trace.fault # "none") =>
        LET c == IF trace.fault = "timeout" THEN Timeout ELSE UnknownException
        IN /\ Returned
           /\ AllCodes(c)
           /\ response.return_code = c
           /\ response.tensors = << >>

\* C15: a Backward call that submitted its task never waits for it, keeps
\* the codes Decode left and reports them, whatever the task does.
C15_BackwardFireAndForget ==
    (rpc = "Backward" /\ trace.submits = 1) =>
        /\ pc \in {"final", "returned", "raised"}
        /\ synapse_codes = trace.after_decode
        /\ Returned =>
              /\ response.return_code = Success
              /\ \A i \in 1..N : response.synapses[i].code = trace.after_decode[i]

\* C15 witness: the backward call has returned while its task is still
\* queued in the pool.
C15_Witness ==
    /\ Returned /\ rpc = "Backward" /\ trace.submits = 1
    /\ task.state = "queued"
    /\ \E i \in 1..N : trace.after_decode[i] # Success

ComputeAllFailed ==
    /\ rpc = "Forward"
    /\ trace.after_compute # << >>
    /\ \A i \in 1..N : trace.after_compute[i] # Success

\* C16 as stated: when the forward callback returned only failure codes the
\* call is over at once and the Encode stage has not run.
C16_Original ==
    ComputeAllFailed => (pc \in {"returned", "raised"} /\ ~trace.encode_loop)

\* C16 amended: when the forward callback returned only failure codes, the
\* Encode loop serializes no synapse's output, leaves every code as it is and
\* every payload empty, and the stop check after it returns the first
\* synapse's code with no payload.
C16_NothingSerialized ==
    ComputeAllFailed =>
        /\ trace.encoded = {}
        /\ synapse_codes = trace.after_compute
        /\ \A i \in 1..N : synapse_responses[i] = 0
        /\ Returned => /\ trace.encode_loop
                       /\ response.return_code = trace.after_compute[1]
                       /\ response.tensors = << >>

\* C16 witness: a forward call whose callback returned two different failure
\* codes has gone through the Encode loop and returned.
C16_Witness ==
    /\ Returned /\ ComputeAllFailed /\ trace.encode_loop /\ N >= 2
    /\ trace.after_compute[1] # trace.after_compute[2]

\* C17: the batch handed to the priority function and the callback holds
\* exactly the synapses that are still Success after Decode.
C17_SurvivingBatch ==
    trace.batch # {} =>
        trace.batch = {i \in 1..N : trace.after_decode[i] = Success}

Unregistered(i) == dispatch.table[dispatch.types[i]] # "present"

Dispatched(i) == i < dispatch.index

\* C18: the default callbacks invoke a registered synapse function only for
\* a synapse whose admission check returned true.
C18_AdmissionGate ==
    \A i \in dispatch.invoked : i \in dispatch.admitted

\* C19 as stated: a synapse whose type has no entry or a None entry gets
\* NotImplemented, forward and backward, whatever the admission check does.
C19_Original ==
    \A i \in 1..dispatch.n :
        (Dispatched(i) /\ Unregistered(i)) => dispatch.response_codes[i] = NotImplemented

\* C19 amended: a synapse whose type has no entry or a None entry is never
\* invoked and gets NotImplemented in a backward call and in a forward call
\* whose admission check returned true, and UnknownException in a forward
\* call whose admission check returned false or raised; every sibling still
\* gets its own code, and a registered, admitted sibling is still invoked.
C19_NotImplemented ==
    /\ \A i \in 1..dispatch.n :
          (Dispatched(i) /\ Unregistered(i)) =>
              /\ i \notin dispatch.invoked
              /\ dispatch.response_codes[i] =
                    IF dispatch.kind = "backward" \/ dispatch.checks[i] = "true"
                    THEN NotImplemented ELSE UnknownException
    /\ dispatch.returned =>
          /\ Len(dispatch.response_codes) = dispatch.n
          /\ \A j \in 1..dispatch.n :
                (~Unregistered(j)
                    /\ (dispatch.kind = "backward" \/ dispatch.checks[j] = "true"))
                => j \in dispatch.invoked

\* C19 witness: a forward batch whose first synapse has no table entry got
\* NotImplemented and whose second synapse was invoked has returned.
C19_Witness ==
    /\ dispatch.returned /\ dispatch.kind = "forward" /\ dispatch.n >= 2
    /\ Unregistered(1) /\ dispatch.response_codes[1] = NotImplemented
    /\ 2 \in dispatch.invoked /\ dispatch.response_codes[2] = Success

\* C21: after the Decode stage, a synapse whose decode failed carries
\* RequestShapeException (shape error) or RequestDeserializationException
\* (any other fault) and the stage's message; every other synapse keeps the
\* code, message and elapsed time it had, and has been decoded from its own
\* payload(s), in forward and in backward calls.
C21_DecodeFrame ==
    (trace.decode_outs # << >> /\ NothingComputed /\ pc \in {"compute", "returned"}) =>
        /\ trace.decoded = 1..N
        /\ \A i \in 1..N :
              IF trace.decode_outs[i] = "ok"
              THEN /\ synapse_codes[i] = Success
                   /\ synapse_messages[i] = "Success"
                   /\ synapse_call_times[i] = "zero"
                   /\ deserialized_forward_tensors[i] = i
                   /\ rpc = "Backward" => deserialized_forward_gradients[i] = N + i
              ELSE /\ synapse_codes[i] =
                        IF trace.decode_outs[i] \in {"ValueError", "GradValueError"}
                        THEN RequestShapeException
                        ELSE RequestDeserializationException
                   /\ synapse_messages[i] \in {"InputShape", "InputDeserialization"}
                   /\ synapse_call_times[i] = "decode"

\* C21 witness: a backward call past Decode whose first synapse failed on
\* its gradient with a non-shape fault while the second was decoded.
C21_Witness ==
    /\ pc = "compute" /\ rpc = "Backward" /\ N >= 2
    /\ trace.decode_outs[1] = "GradException"
    /\ synapse_codes[1] = RequestDeserializationException
    /\ synapse_codes[2] = Success /\ deserialized_forward_gradients[2] = N + 2

\* C22: after the forward deadline has expired in priority mode, a task that
\* was still queued is cancelled and is never run by a worker, a task that
\* was running stays with its worker (running or finished), and in both
\* cases the call returns Timeout for the call and for every synapse.
C22_AdvisoryCancel ==
    trace.deadline_expired =>
        /\ rpc = "Forward" /\ priority
        /\ trace.expired_in = "queued" =>
                (task.state = "cancelled" /\ trace.worker_calls = 0)
        /\ trace.expired_in = "running" =>
                (task.state \in {"running", "done"} /\ trace.worker_calls = 1)
        /\ Returned
        /\ response.return_code = Timeout
        /\ Len(response.synapses) = N
        /\ \A i \in 1..N : /\ synapse_codes[i] = Timeout
                           /\ response.synapses[i].code = Timeout

\* C22 witness: the deadline expired while the task was running, the caller
\* got Timeout, and the task has since run to completion with Success codes.
C22_Witness ==
    /\ Returned /\ trace.expired_in = "running" /\ N >= 1
    /\ task.state = "done" /\ task.result.kind = "return"
    /\ \A i \in 1..N : task.result.codes[i] = Success
    /\ response.return_code = Timeout

\* C22, the other interleaving: the deadline expired while the task was
\* queued; it is cancelled and the caller got Timeout.
C22_WitnessQueued ==
    /\ Returned /\ trace.expired_in = "queued" /\ N >= 1
    /\ task.state = "cancelled" /\ response.return_code = Timeout

\* C23 as stated: whenever a call has returned, no task it submitted is still
\* queued or executing in the pool.
C23_Original ==
    Returned => task.state \notin {"queued", "running"}

\* C23 amended: whenever a call has returned, a task of it that is still
\* queued belongs to a Backward call, and a task of it that is still
\* executing belongs to a Backward call or to a Forward call that returned
\* by deadline expiry.
C23_TaskAfterReturn ==
    Returned =>
        /\ task.state = "queued" => rpc = "Backward"
        /\ task.state = "running" => (rpc = "Backward" \/ trace.deadline_expired)

\* C23 witness: a forward call in priority mode has returned with its
\* task's result, the task being finished.
C23_Witness ==
    /\ Returned /\ rpc = "Forward" /\ trace.submits = 1
    /\ ~trace.deadline_expired
    /\ task.state = "done" /\ response.return_code = Success

\* C24: in priority mode a Forward call that has submitted its task and
\* waits for it eventually returns, whatever the forward deadline is and
\* whether or not the callback ever completes.
C24_ForwardReturns ==
    (rpc = "Forward" /\ priority /\ pc = "waiting") ~> Returned

\* C25: once a forward call has returned after its deadline expired, no
\* step taken while the call's objects live (the task starting late,
\* running on, or completing with any result) changes the codes, messages
\* or payloads of the call or of the response it produced.
C25_LateCompletion ==
    [][(Returned /\ rpc = "Forward" /\ trace.deadline_expired /\ pc' = "returned") =>
            /\ response' = response
            /\ synapse_codes' = synapse_codes
            /\ synapse_messages' = synapse_messages
            /\ synapse_responses' = synapse_responses
            /\ req_codes' = req_codes
            /\ req_messages' = req_messages]_vars

\* C25 witness: after the Timeout response of a two-synapse forward call,
\* its task has completed with codes of its own, and the call's codes and
\* the response still say Timeout.
C25_Witness ==
    /\ Returned /\ rpc = "Forward" /\ trace.deadline_expired /\ N >= 2
    /\ task.state = "done" /\ task.result.kind = "return"
    /\ task.result.codes[1] = Success /\ task.result.codes[2] = NotImplemented
    /\ \A i \in 1..N : /\ synapse_codes[i] = Timeout
                       /\ req_codes[i] = Timeout
                       /\ response.synapses[i].code = Timeout
    /\ response.tensors = << >>

\* C26: a call invokes the compute callback on its own thread or submits it
\* to the pool at most once in all, a worker runs it at most once, and the
\* one invocation is handed every synapse of the call.
C26_SingleInvocation ==
    /\ trace.direct_calls + trace.submits <= 1
    /\ trace.priority_evals <= 1
    /\ trace.worker_calls <= trace.submits
    /\ trace.direct_calls + trace.submits = 1 => trace.batch = 1..N

\* C26 witness: a forward call with two synapses has returned after one
\* submission, run once by a worker, covering both synapses.
C26_Witness ==
    /\ Returned /\ rpc = "Forward" /\ N >= 2
    /\ trace.submits = 1 /\ trace.worker_calls = 1 /\ trace.direct_calls = 0
    /\ trace.batch = 1..N /\ task.state = "done"

RECURSIVE Replay(_, _, _)
\* the lists of call c as its own request and the first k steps of its own
\* history give them
Replay(c, t, k) ==
    IF k = 0 THEN NoOut
    ELSE thread_apply(c, [t EXCEPT !.out = Replay(c, t, k - 1)], t.log[k])

\* C27: with calls handled side by side in any interleaving, the codes,
\* messages, elapsed times, payloads and response of every call are, at
\* every moment, what that call's own request and its own decode, callback
\* and encode results give; every payload a call holds or returns is its own.
C27_Isolation ==
    \A c \in CallIds :
        /\ calls[c].out = Replay(c, calls[c], Len(calls[c].log))
        /\ \A i \in DOMAIN calls[c].out.response.tensors :
              calls[c].out.response.tensors[i] \in {<< >>, << c, i >>}

\* C27 witness: two forward calls of different sizes and different results
\* have both returned Success, each with its own payloads, while the other
\* was in flight.
C27_Witness ==
    /\ calls["t1"].pc = "returned" /\ calls["t2"].pc = "returned"
    /\ calls["t1"].kind = "Forward" /\ calls["t2"].kind = "Forward"
    /\ calls["t1"].nsyn = 1 /\ calls["t2"].nsyn = 2
    /\ calls["t1"].out.response.tensors = << << "t1", 1 >> >>
    /\ calls["t2"].out.response.tensors = << << >>, << "t2", 2 >> >>
    /\ calls["t2"].out.codes[1] = NotImplemented

\* C28: on an axon with a priority function the callback of a call is never
\* invoked on the calling thread and is submitted only with a priority
\* computed for it; on an axon without one the callback is invoked on the
\* calling thread, no priority is computed, nothing is submitted and no
\* worker runs anything; a call past its Compute stage has taken exactly the
\* branch of its mode.
C28_ModeFixed ==
    /\ priority =>
          /\ trace.direct_calls = 0
          /\ trace.submits <= trace.priority_evals
          /\ trace.worker_calls <= trace.submits
          /\ pc \in {"waiting", "encode"} => trace.submits = 1
    /\ ~priority =>
          /\ trace.priority_evals = 0
          /\ trace.submits = 0
          /\ trace.worker_calls = 0
          /\ task.state = "none"
          /\ pc = "encode" => trace.direct_calls = 1

\* C28 witness: without a priority function a forward call has returned
\* Success after one synchronous invocation, the pool untouched.
C28_Witness ==
    /\ ~priority /\ Returned /\ rpc = "Forward" /\ response.return_code = Success
    /\ trace.direct_calls = 1 /\ trace.priority_evals = 0 /\ task.state = "none"

\* C28, the other mode: with a priority function a forward call has
\* returned Success through one submission run by a worker.
C28_WitnessPool ==
    /\ priority /\ Returned /\ rpc = "Forward" /\ response.return_code = Success
    /\ trace.direct_calls = 0 /\ trace.priority_evals = 1 /\ trace.submits = 1
    /\ trace.worker_calls = 1

\* what the last attach operation was to replace, as it is now
AttachTarget ==
    CASE attached.op = "forward" -> attached.forward_callback
      [] attached.op = "backward" -> attached.backward_callback
      [] attached.op = "synapse" -> attached.synapse_callbacks[attached.key]
      [] OTHER -> "none"

\* C29: an attach operation (forward, backward or per-type) given a
\* callback with an incompatible signature has raised and has left the
\* callback or table entry it was to replace as it was.
C29_AttachRejects ==
    (attached.op # "none" /\ ~compatible(attached.callback)) =>
        /\ attached.raised
        /\ AttachTarget = attached.before

\* the call got as far as the try block of the Compute stage
ComputeEntered == trace.batch # {}

\* C30 as stated: a forward call that completes all stages has emitted
\* telemetry four times (after Decode, after Compute, after Encode, at final
\* return).
C30_Original ==
    (Returned /\ rpc = "Forward" /\ response.return_code = Success) =>
        trace.emits = 4

\* C30 amended: a call emits telemetry once on entering the Compute stage
\* and once at the point where it returns, and nowhere else: nothing before
\* Compute is entered, one emission while the call waits for its task or is
\* in Encode or at the final check, and at return one emission for a call
\* stopped by validation or Decode and two for any other call; the counters
\* move with every emission when prometheus is on and never otherwise.
C30_Telemetry ==
    /\ pc \in {"validate", "decode", "compute"} => trace.emits = 0
    /\ pc \in {"waiting", "encode", "final"} => trace.emits = 1
    /\ Returned => trace.emits = (IF ComputeEntered THEN 2 ELSE 1)
    /\ trace.counts = (IF prometheus = "on" THEN trace.emits ELSE 0)

\* C30 witness: a forward call has completed every stage and returned
\* Success with two emissions, both counted.
C30_Witness ==
    /\ Returned /\ rpc = "Forward" /\ response.return_code = Success
    /\ trace.encode_loop /\ trace.emits = 2 /\ trace.counts = 2

\* C31: in a Backward call with n synapses that has been through Decode
\* (so with 2n payloads), the input of synapse i is decoded from payload i
\* and, once that succeeded, its gradient from payload n + i and against
\* synapse i's own decoded input; inputs come from the first n payloads,
\* gradients from the last n, and no two synapses read the same payload.
C31_BackwardPositions ==
    (rpc = "Backward" /\ trace.decode_outs # << >>) =>
        /\ request.tensors = 2 * N
        /\ \A i \in 1..N :
              IF trace.decode_outs[i] \in {"ValueError", "Exception"}
              THEN /\ deserialized_forward_tensors[i] = 0
                   /\ deserialized_forward_gradients[i] = 0
                   /\ trace.grad_read[i] = 0
              ELSE /\ deserialized_forward_tensors[i] = i
                   /\ trace.grad_read[i] = N + i
                   /\ trace.grad_against[i] = deserialized_forward_tensors[i]
                   /\ deserialized_forward_gradients[i] =
                          (IF trace.decode_outs[i] = "ok" THEN N + i ELSE 0)
        /\ \A i, j \in 1..N :
              (i # j /\ trace.grad_read[i] # 0) =>
                  /\ trace.grad_read[i] # trace.grad_read[j]
                  /\ trace.grad_read[i] # deserialized_forward_tensors[j]
                  /\ trace.grad_read[i] # deserialized_forward_tensors[i]

\* C31 witness: a backward call with two synapses and four payloads is past
\* Decode with inputs from payloads 1, 2 and gradients from payloads 3, 4.
C31_Witness ==
    /\ rpc = "Backward" /\ pc = "compute" /\ N = 2 /\ request.tensors = 4
    /\ deserialized_forward_tensors = << 1, 2 >>
    /\ deserialized_forward_gradients = << 3, 4 >>
    /\ trace.grad_against = << 1, 2 >>

====
